---------------------------- MODULE Spec2Model ----------------------------
(***************************************************************************)
(* Model of the flood-analysis notebook src/DANA-EO.ipynb.                  *)
(*                                                                         *)
(* The notebook builds Earth Engine image expressions and evaluates them    *)
(* at a few materializing calls (getInfo, addLayer, task.start).  The model *)
(* gives every image expression the raster it denotes on a small grid:      *)
(*   - a raster (ee.Image) is a sequence of bands, in band order;           *)
(*   - a band is [name, px, err]: px maps each grid cell to [v, m], the     *)
(*     stored value and the validity mask (m = TRUE: valid); err says that  *)
(*     a null statistic flows into the expression, so that evaluating it    *)
(*     on the server is an error;                                           *)
(*   - real numbers are fixed-point integers with FP units per 1.           *)
(***************************************************************************)
EXTENDS Integers, Sequences, FiniteSets, TLC

\* ------------------------------------------------------------------ bounds
\* Number of grid cells of the model rasters.
NPix == 3
\* The cells 1..RoiPix lie inside the region of interest, the others outside.
RoiPix == 2
\* Fixed-point units per 1.0 (four decimals).
FP == 10000
\* Ground area in m2 of one grid cell, the value of ee.Image.pixelArea(): a
\* cell stands for a block of equal 10 m pixels.
PixelAreaM2 == 10000
\* Largest region pixel count (in units of 10^12 pixels) an aggregation is tried on.
MaxCount == 12

Pixels == 1..NPix

\* ------------------------------------------------------- program constants
\* PRE_FLOOD_RANGE / POST_FLOOD_RANGE as day numbers counted from 2024-08-25:
\* 2024-09-25 is day 31, 2024-09-26 day 32, 2024-11-25 day 92.
PRE_FLOOD_RANGE == <<0, 31>>
POST_FLOOD_RANGE == <<32, 92>>
\* The thresholds are 0.001.
NDVI_THRESHOLD == FP \div 1000
NDWI_THRESHOLD == FP \div 1000
NDBI_THRESHOLD == FP \div 1000
\* ee.Filter.lt('CLOUDY_PIXEL_PERCENTAGE', 40)
CLOUD_CEILING == 40
\* maxPixels=1e13 of calculate_area's reduceRegion, in units of 10^12 pixels.
MAX_PIXELS == 10
\* The divisor 1e6 that converts m2 to km2.
M2_PER_KM2 == 1000000
\* The two elevation cut points of the risk map.
LOW_CUT == 50
HIGH_CUT == 10

\* ----------------------------------------------------------------- numbers
\* a / b rounded to the nearest integer (b > 0), the fixed-point image of a
\* floating-point division.
RoundDiv(a, b) == (2 * a + b) \div (2 * b)

RECURSIVE SumOver(_, _)
\* The sum of f[x] over the finite set S.
SumOver(f, S) ==
  IF S = {} THEN 0
  ELSE LET x == CHOOSE y \in S : TRUE IN f[x] + SumOver(f, S \ {x})

Min(S) == CHOOSE x \in S : \A y \in S : x <= y
Max(S) == CHOOSE x \in S : \A y \in S : x >= y

\* ------------------------------------------------- Earth Engine image algebra
Px(v, m) == [v |-> v, m |-> m]
Band(name, px, err) == [name |-> name, px |-> px, err |-> err]

\* ee.Image.constant(c) as a band for a binary operation.
ConstBand(c) == Band("constant", [p \in Pixels |-> Px(c, TRUE)], FALSE)

\* The cell-wise arithmetic, comparison and logical operations of ee.Image;
\* comparisons and And answer 1 or 0.
CellOp(op, x, y) ==
  CASE op = "add" -> x + y
    [] op = "subtract" -> x - y
    [] op = "multiply" -> x * y
    [] op = "gt" -> IF x > y THEN 1 ELSE 0
    [] op = "lte" -> IF x <= y THEN 1 ELSE 0
    [] op = "neq" -> IF x # y THEN 1 ELSE 0
    [] op = "and" -> IF x # 0 /\ y # 0 THEN 1 ELSE 0

\* A cell-wise binary operation: the result is valid where both inputs are,
\* and keeps the first input's band name.
Lift2(op, a, b) ==
  Band(a.name,
       [p \in Pixels |-> Px(CellOp(op, a.px[p].v, b.px[p].v), a.px[p].m /\ b.px[p].m)],
       a.err \/ b.err)

Add(a, b) == Lift2("add", a, b)
Subtract(a, b) == Lift2("subtract", a, b)
Multiply(a, b) == Lift2("multiply", a, b)
Gt(a, c) == Lift2("gt", a, ConstBand(c))
Lte(a, c) == Lift2("lte", a, ConstBand(c))
Neq(a, c) == Lift2("neq", a, ConstBand(c))
And(a, b) == Lift2("and", a, b)

\* ee.Image.gte(c), the non-strict comparison the notebook does not use.
Gte(a, c) ==
  Band(a.name,
       [p \in Pixels |-> Px(IF a.px[p].v >= c THEN 1 ELSE 0, a.px[p].m)],
       a.err)

\* image.updateMask(mask): a cell stays valid only where it was valid and the
\* mask band is valid and non-zero; stored values are kept.
UpdateMaskBand(a, mask) ==
  Band(a.name,
       [p \in Pixels |-> Px(a.px[p].v, a.px[p].m /\ mask.px[p].m /\ mask.px[p].v # 0)],
       a.err \/ mask.err)
UpdateMask(image, mask) == [i \in 1..Len(image) |-> UpdateMaskBand(image[i], mask)]

\* image.clip(region): cells outside the region become invalid.
ClipBand(a, region) ==
  Band(a.name, [p \in Pixels |-> Px(a.px[p].v, a.px[p].m /\ p \in region)], a.err)
Clip(image, region) == [i \in 1..Len(image) |-> ClipBand(image[i], region)]

BandNames(image) == [i \in 1..Len(image) |-> image[i].name]
HasBand(image, name) == \E i \in 1..Len(image) : image[i].name = name
BandIndex(image, name) == CHOOSE i \in 1..Len(image) : image[i].name = name
\* image.select(name) as a band, image.select([names]) as a raster.
SelectBand(image, name) == image[BandIndex(image, name)]
Select(image, names) == [i \in 1..Len(names) |-> SelectBand(image, names[i])]
AddBands(image, more) == image \o more
RenameBand(a, name) == Band(name, a.px, a.err)
Rename(image, names) == [i \in 1..Len(image) |-> RenameBand(image[i], names[i])]
\* Whether evaluating the raster on the server is an error.
ImageErr(image) == \E i \in 1..Len(image) : image[i].err

\* image.reduce(ee.Reducer.mean()): per cell, the mean over the valid bands of
\* the image, all of them; invalid where no band is valid.
ReduceMean(image) ==
  Band("mean",
       [p \in Pixels |->
          LET valid == {i \in 1..Len(image) : image[i].px[p].m}
              vals == [i \in 1..Len(image) |-> image[i].px[p].v]
          IN IF valid = {} THEN Px(0, FALSE)
             ELSE Px(RoundDiv(SumOver(vals, valid), Cardinality(valid)), TRUE)],
       ImageErr(image))


\* ee.Reducer.minMax() of one band over the region: the least and greatest
\* valid value inside it, or null (ok = FALSE) when no cell of the region is valid.
MinMax(a, region) ==
  LET vals == {a.px[p].v : p \in {q \in region : a.px[q].m}}
  IN IF vals = {} THEN [ok |-> FALSE, min |-> 0, max |-> 0]
     ELSE [ok |-> TRUE, min |-> Min(vals), max |-> Max(vals)]

\* ee.Image.divide: "returning 0 for division by 0"; the quotient in FP units.
DivideFP(x, d) == IF d = 0 THEN 0 ELSE IF d > 0 THEN RoundDiv(x * FP, d) ELSE RoundDiv(-x * FP, -d)

\* (x - y) / (x + y) in FP units for x + y > 0, rounded to the nearest unit
\* with halves away from zero, as the sign-symmetric rounding of a
\* floating-point division is.
Ratio(x, y) ==
  IF x >= y THEN RoundDiv((x - y) * FP, x + y) ELSE -RoundDiv((y - x) * FP, x + y)

\* A slip: only the first band tested for negative values.
NormalizedDifference_first_tested(image, nameA, nameB) ==
  LET a == SelectBand(image, nameA)
      b == SelectBand(image, nameB)
  IN Band("nd",
          [p \in Pixels |->
             LET x == a.px[p].v
                 y == b.px[p].v
                 ok == a.px[p].m /\ b.px[p].m /\ x >= 0 /\ x + y # 0
             IN Px(IF ok THEN (IF x + y > 0 THEN Ratio(x, y) ELSE -Ratio(-x, -y)) ELSE 0, ok)],
          a.err \/ b.err)
\* A slip: a zero sum answered like ee.Image.divide does, with a valid 0.
NormalizedDifference_zero_kept(image, nameA, nameB) ==
  LET a == SelectBand(image, nameA)
      b == SelectBand(image, nameB)
  IN Band("nd",
          [p \in Pixels |->
             LET x == a.px[p].v
                 y == b.px[p].v
                 ok == a.px[p].m /\ b.px[p].m /\ x >= 0 /\ y >= 0
             IN Px(IF ok /\ x + y # 0 THEN Ratio(x, y) ELSE 0, ok)],
          a.err \/ b.err)
\* image.normalizedDifference([A, B]): (A - B) / (A + B) in FP units, band
\* name 'nd'; a cell is invalid where an input is invalid or negative, or
\* where A + B = 0.
NormalizedDifference(image, nameA, nameB) ==
  LET a == SelectBand(image, nameA)
      b == SelectBand(image, nameB)
  IN Band("nd",
          [p \in Pixels |->
             LET x == a.px[p].v
                 y == b.px[p].v
                 ok == a.px[p].m /\ b.px[p].m /\ x >= 0 /\ y >= 0 /\ x + y # 0
             IN Px(IF ok THEN Ratio(x, y) ELSE 0, ok)],
          a.err \/ b.err)

\* ------------------------------------------------------ the notebook's functions

\* define_roi(): the cells inside the polygon.
define_roi == 1..RoiPix

\* A slip: the snow/ice class (11) left out of the test.
mask_sentinel2_clouds_no_snow(image) ==
  LET scl == SelectBand(image, "SCL")
      cloud_free == And(And(And(Neq(scl, 3), Neq(scl, 8)), Neq(scl, 9)), Neq(scl, 10))
  IN UpdateMask(image, cloud_free)
\* mask_sentinel2_clouds(image)
mask_sentinel2_clouds(image) ==
  LET scl == SelectBand(image, "SCL")
      cloud_free == And(And(And(And(Neq(scl, 3), Neq(scl, 8)), Neq(scl, 9)), Neq(scl, 10)), Neq(scl, 11))
  IN UpdateMask(image, cloud_free)

\* A slip: the bands taken by position and left with their names.
pansharpen_simple_mean_by_position(multispectral, panchromatic, bands) ==
  LET multispectral_mean == ReduceMean(multispectral)
  IN [i \in 1..Len(bands) |->
        Add(multispectral[i], Subtract(panchromatic, multispectral_mean))]
\* pansharpen_simple_mean(multispectral, panchromatic, bands); panchromatic
\* is the single band of the reference image.
pansharpen_simple_mean(multispectral, panchromatic, bands) ==
  LET multispectral_mean == ReduceMean(multispectral)
      pansharpened_bands ==
        [i \in 1..Len(bands) |->
           Add(SelectBand(multispectral, bands[i]), Subtract(panchromatic, multispectral_mean))]
  IN Rename(pansharpened_bands, bands)

\* A slip: the band divided by its range without the minimum taken off.
normalize_no_shift(image, band_name, region) ==
  LET a == SelectBand(image, band_name)
      stats == MinMax(a, region)
  IN Band(a.name,
          [p \in Pixels |-> Px(DivideFP(a.px[p].v, stats.max - stats.min), a.px[p].m)],
          a.err \/ ~stats.ok)
\* histogram_match_simple.normalize(image, band_name): the band rescaled by
\* its region statistics, in FP units.  There is no test of max_val against
\* min_val: a zero range divides by zero, which ee.Image.divide answers with 0.
\* A null statistic makes the expression an error.
normalize(image, band_name, region) ==
  LET a == SelectBand(image, band_name)
      stats == MinMax(a, region)
  IN Band(a.name,
          [p \in Pixels |->
             Px(DivideFP(a.px[p].v - stats.min, stats.max - stats.min), a.px[p].m)],
          a.err \/ ~stats.ok)

\* histogram_match_simple(pre_flood_image, post_flood_image, band_name, region, scale)
histogram_match_simple(pre_flood_image, post_flood_image, band_name, region) ==
  LET pre_flood_normalized == normalize(pre_flood_image, band_name, region)
      post_stats == MinMax(SelectBand(post_flood_image, band_name), region)
      matched ==
        Band(pre_flood_normalized.name,
             [p \in Pixels |->
                Px(RoundDiv(pre_flood_normalized.px[p].v * (post_stats.max - post_stats.min), FP)
                     + post_stats.min,
                   pre_flood_normalized.px[p].m)],
             pre_flood_normalized.err \/ ~post_stats.ok)
  IN RenameBand(matched, band_name \o "_matched")

\* calculate_indices(image)
calculate_indices(image) ==
  LET ndvi == RenameBand(NormalizedDifference(image, "B8", "B4"), "NDVI")
      ndwi == RenameBand(NormalizedDifference(image, "B3", "B8"), "NDWI")
      ndbi == RenameBand(NormalizedDifference(image, "B11", "B8"), "NDBI")
  IN AddBands(image, <<ndvi, ndwi, ndbi>>)


\* --------------------------------------------------------------- calculate_area
\* What the server and the network contribute to one materializing call:
\* fail is "none" or the error the call raises, drop says that the server leaves
\* a band without contributing cells out of the dictionary, npix is the
\* region's pixel count at the reduction scale (units of 10^12 pixels).
Failures == {"ServiceUnavailable", "EEException"}
Outcomes == {"none"} \cup Failures
Returned(v) == [raised |-> "none", value |-> v]
Raised(e) == [raised |-> e, value |-> 0]

\* The cells whose values a region reduction of band a takes in.
Contributing(a, roi) == {p \in roi : a.px[p].m}

\* pixel_area.reduceRegion(ee.Reducer.sum(), roi, scale, maxPixels, bestEffort)
\* followed by getInfo(): the dictionary, or the error raised.  With bestEffort
\* an over-budget region is reduced at a coarser scale instead of failing.
ReduceRegionSumInfo(a, roi, maxPixels, bestEffort, srv) ==
  IF srv.fail # "none" THEN [raised |-> srv.fail, keys |-> {}, val |-> 0, coarse |-> FALSE]
  ELSE IF a.err THEN [raised |-> "EEException", keys |-> {}, val |-> 0, coarse |-> FALSE]
  ELSE IF srv.npix > maxPixels /\ ~bestEffort
    THEN [raised |-> "TooManyPixels", keys |-> {}, val |-> 0, coarse |-> FALSE]
  ELSE [raised |-> "none",
        keys |-> IF Contributing(a, roi) = {} /\ srv.drop THEN {} ELSE {a.name},
        val |-> SumOver([p \in Pixels |-> a.px[p].v], Contributing(a, roi)),
        coarse |-> srv.npix > maxPixels]

\* ee.Image.pixelArea()
PixelAreaBand == Band("area", [p \in Pixels |-> Px(PixelAreaM2, TRUE)], FALSE)

\* A slip: cells at the threshold kept.
significant_area_gte(image, threshold) ==
  UpdateMaskBand(image[1], Gte(image[1], threshold))
\* significant_area = image.updateMask(image.gt(threshold))
significant_area(image, threshold) == UpdateMaskBand(image[1], Gt(image[1], threshold))

\* A slip: the reduction asked for with bestEffort=True.
area_stats_dict_best_effort(pixel_area, roi, srv) ==
  ReduceRegionSumInfo(pixel_area, roi, MAX_PIXELS, TRUE, srv)
\* area_stats = pixel_area.reduceRegion(sum, roi, scale=10, maxPixels=1e13), then
\* area_stats.getInfo()
area_stats_dict(pixel_area, roi, srv) == ReduceRegionSumInfo(pixel_area, roi, MAX_PIXELS, FALSE, srv)

\* A slip: every failure of the aggregation answered with 0.
area_from_dict_swallow(d, band_name) ==
  IF d.raised # "none" \/ band_name \notin d.keys THEN Returned(0)
  ELSE Returned(RoundDiv(d.val, M2_PER_KM2))
\* The tail of calculate_area from the dictionary on: the band lookup, the
\* zero returned for an absent band, the conversion to km2 (FP units).
area_from_dict(d, band_name) ==
  IF d.raised # "none" THEN Raised(d.raised)
  ELSE IF band_name \notin d.keys THEN Returned(0)
  ELSE Returned(RoundDiv(d.val, M2_PER_KM2))

\* A slip: the cell areas summed without the cell values.
calculate_area_unweighted(image, roi, threshold, srv) ==
  LET kept == significant_area(image, threshold)
      pixel_area == Band(kept.name, [p \in Pixels |-> Px(PixelAreaM2 * FP, kept.px[p].m)], kept.err)
      d == area_stats_dict(pixel_area, roi, srv)
      band_name == image[1].name
  IN area_from_dict(d, band_name)
\* calculate_area(image, roi, threshold): what it returns or raises.
calculate_area(image, roi, threshold, srv) ==
  LET pixel_area == Multiply(significant_area(image, threshold), PixelAreaBand)
      d == area_stats_dict(pixel_area, roi, srv)
      band_name == image[1].name
  IN area_from_dict(d, band_name)

\* ------------------------------------------------------------ image collections
\* An observation is [id, date, cloudy, img]; a collection is a set of them.
FilterDate(coll, start, end) == {o \in coll : start <= o.date /\ o.date < end}
FilterCloudy(coll, ceiling) == {o \in coll : o.cloudy < ceiling}
MapClouds(coll) == {[o EXCEPT !.img = mask_sentinel2_clouds(o.img)] : o \in coll}

RECURSIVE SortedValues(_)
\* The second components of the pairs of S, in ascending order.
SortedValues(S) ==
  IF S = {} THEN <<>>
  ELSE LET x == CHOOSE y \in S : \A z \in S : y[2] < z[2] \/ (y[2] = z[2] /\ y[1] <= z[1])
       IN <<x[2]>> \o SortedValues(S \ {x})

\* ee.Reducer.median: the middle value, or the mean of the two middle values.
MedianOf(S) ==
  LET s == SortedValues(S)
      n == Len(s)
  IN IF n % 2 = 1 THEN s[(n + 1) \div 2] ELSE RoundDiv(s[n \div 2] + s[n \div 2 + 1], 2)

\* collection.median(): per band and cell the median of the valid values of
\* the collection's observations; invalid where none is valid.  An empty
\* collection gives an image without bands.
Median(coll) ==
  IF coll = {} THEN <<>>
  ELSE LET first == (CHOOSE o \in coll : TRUE).img
       IN [i \in 1..Len(first) |->
             Band(first[i].name,
                  [p \in Pixels |->
                     LET S == {<<o.id, o.img[i].px[p].v>> : o \in {q \in coll : q.img[i].px[p].m}}
                     IN IF S = {} THEN Px(0, FALSE) ELSE Px(MedianOf(S), TRUE)],
                  FALSE)]

\* The ids of the observations of a collection.
Ids(coll) == {o.id : o \in coll}


\* ------------------------------------------------------------------- the inputs
\* Largest number of observations in the catalog.
MaxObs == 2

\* A Sentinel-2 surface-reflectance image with the bands the notebook reads.
S2Image(b2, b3, b4, b8, b11, scl) ==
  LET mk(name, f) == Band(name, [p \in Pixels |-> Px(f[p], TRUE)], FALSE)
  IN <<mk("B2", b2), mk("B3", b3), mk("B4", b4), mk("B8", b8), mk("B11", b11), mk("SCL", scl)>>

Observation(id, date, cloudy, img) == [id |-> id, date |-> date, cloudy |-> cloudy, img |-> img]

\* The observations a catalog is made of: a clear pre-event scene, a pre-event
\* scene with a cloud and a constant B8, a scene on the last day of the
\* pre-event range with a cell where B8 = B4 = 0, a post-event scene of a flood,
\* a post-event scene above the cloud ceiling, a fully clouded pre-event scene.
ObservationPool ==
  { Observation(1, 5, 10,
      S2Image([p \in Pixels |-> 300 + 20 * p], [p \in Pixels |-> 600 + 50 * p],
              [p \in Pixels |-> 400 + 100 * p], [p \in Pixels |-> 2000 + 300 * p],
              [p \in Pixels |-> 1500 + 100 * p], [p \in Pixels |-> 4])),
    Observation(2, 20, 20,
      S2Image([p \in Pixels |-> 500], [p \in Pixels |-> 1200 + 100 * p],
              [p \in Pixels |-> 1000], [p \in Pixels |-> 1000],
              [p \in Pixels |-> 1000 + 200 * p], [p \in Pixels |-> IF p = 1 THEN 9 ELSE 4])),
    Observation(3, 31, 5,
      S2Image([p \in Pixels |-> 350], [p \in Pixels |-> 800],
              [p \in Pixels |-> IF p = 2 THEN 0 ELSE 700], [p \in Pixels |-> IF p = 2 THEN 0 ELSE 1500],
              [p \in Pixels |-> 1800], [p \in Pixels |-> 5])),
    Observation(4, 40, 15,
      S2Image([p \in Pixels |-> 400], [p \in Pixels |-> 900],
              [p \in Pixels |-> 500], [p \in Pixels |-> 300 + 10 * p],
              [p \in Pixels |-> 200], [p \in Pixels |-> 6])),
    Observation(5, 60, 55,
      S2Image([p \in Pixels |-> 2500], [p \in Pixels |-> 2600],
              [p \in Pixels |-> 2700], [p \in Pixels |-> 2800],
              [p \in Pixels |-> 2900], [p \in Pixels |-> 4])),
    Observation(6, 10, 30,
      S2Image([p \in Pixels |-> 3000], [p \in Pixels |-> 3000],
              [p \in Pixels |-> 3000], [p \in Pixels |-> 3000],
              [p \in Pixels |-> 3000], [p \in Pixels |-> 8])) }

\* The catalogs a run is tried on: at most MaxObs observations, one of them
\* at least dated in the pre-event range below the cloud ceiling (so that no
\* composite is an image without bands).
Catalogs ==
  {S \in SUBSET ObservationPool :
     /\ Cardinality(S) <= MaxObs
     /\ FilterCloudy(FilterDate(S, PRE_FLOOD_RANGE[1], PRE_FLOOD_RANGE[2]), CLOUD_CEILING) # {}}

\* Elevations around the two cut points, and the elevation rasters: one value
\* per cell of the region, a fixed one outside it.
ElevationValues == {5, 10, 11, 50, 51, 60}
DemRasters ==
  {<<Band("elevation", [p \in Pixels |-> Px(IF p \in define_roi THEN f[p] ELSE 5, TRUE)], FALSE)>> :
     f \in [define_roi -> ElevationValues]}

\* ROI.area() in m2, and the region's pixel count at scale 10 in units of
\* 10^12 pixels (about 1.16 million pixels: 0 units).
RoiAreaM2 == Cardinality(define_roi) * PixelAreaM2
RoiPixelCount == 0


\* --------------------------------------------------------------- risk map (main)
\* A slip: the low class taken from elevations at or above the cut point.
low_risk_gte(elev) == Gte(elev, LOW_CUT)
\* low_risk = dem.gt(50)
low_risk(elev) == Gt(elev, LOW_CUT)
\* medium_risk = dem.lte(50).And(dem.gt(10))
medium_risk(elev) == And(Lte(elev, LOW_CUT), Gt(elev, HIGH_CUT))
\* high_risk = dem.lte(10)
high_risk(elev) == Lte(elev, HIGH_CUT)
\* flood_risk_vis = low_risk.multiply(1).add(medium_risk.multiply(2)).add(high_risk.multiply(3))
flood_risk(elev) ==
  Add(Add(Multiply(low_risk(elev), ConstBand(1)), Multiply(medium_risk(elev), ConstBand(2))),
      Multiply(high_risk(elev), ConstBand(3)))

\* ------------------------------------------------------- area arithmetic (main)
\* ROI.area().divide(1e6): km2 in FP units.
region_area_km2 == RoundDiv(RoiAreaM2 * FP, M2_PER_KM2)
\* x_area_change = post_x_area - pre_x_area
AreaChange(post_area, pre_area) == post_area - pre_area
\* x_percentage_change = (x_area_change / total_area) * 100, in FP units of a
\* percent (total > 0).
PercentageChange(change, total) == RoundDiv(change * 100 * FP, total)

\* ------------------------------------------------------------------------ state
VARIABLES
  pc,                    \* where main() stands
  step,                  \* the next call of a run of like calls (areas, layers, exports)
  error,                 \* the exception main() ended with, "none" otherwise
  catalog,               \* the observations of COPERNICUS/S2_SR over the region
  sentinel2, pre_flood, post_flood,
  pre_flood_median, post_flood_median,
  pre_flood_matched_b8, pansharpened_image,
  pre_flood_indices, post_flood_indices,
  ndvi_diff, ndwi_diff, ndbi_diff, ndwi_increase,
  dem, flood_risk_vis,
  total_area,            \* km2, FP units
  area,                  \* the six results of calculate_area, by variable name
  area_change, percentage_change,   \* by index name
  printed,               \* the lines printed, <<label, value>>
  layers,                \* the layers handed to base_map, by name
  exports,               \* the export tasks started
  returned,              \* whether main() returned base_map
  requests,              \* the materializing calls made so far, in order
  call, ret              \* a single function applied to drawn inputs, and its result

imageVars == <<sentinel2, pre_flood, post_flood, pre_flood_median, post_flood_median,
               pre_flood_matched_b8, pansharpened_image, pre_flood_indices,
               post_flood_indices, ndvi_diff, ndwi_diff, ndbi_diff, ndwi_increase,
               dem, flood_risk_vis>>
numberVars == <<total_area, area, area_change, percentage_change>>
outputVars == <<printed, layers, exports, returned>>
unitVars == <<call, ret>>
vars == <<pc, step, error, catalog, imageVars, numberVars, outputVars, requests, unitVars>>

IndexNames == {"NDVI", "NDWI", "NDBI"}
AreaNames == {"pre_ndvi_area", "post_ndvi_area", "pre_ndwi_area", "post_ndwi_area",
              "pre_ndbi_area", "post_ndbi_area"}
NoCall == [fn |-> "none"]
NoImage == <<>>

\* The state main() starts from, for a given catalog.
MainStart ==
  /\ pc = "start" /\ step = 0 /\ error = "none"
  /\ sentinel2 = {} /\ pre_flood = {} /\ post_flood = {}
  /\ pre_flood_median = NoImage /\ post_flood_median = NoImage
  /\ pre_flood_matched_b8 = NoImage /\ pansharpened_image = NoImage
  /\ pre_flood_indices = NoImage /\ post_flood_indices = NoImage
  /\ ndvi_diff = NoImage /\ ndwi_diff = NoImage /\ ndbi_diff = NoImage
  /\ ndwi_increase = NoImage /\ dem = NoImage /\ flood_risk_vis = NoImage
  /\ total_area = 0
  /\ area = [n \in AreaNames |-> 0]
  /\ area_change = [n \in IndexNames |-> 0]
  /\ percentage_change = [n \in IndexNames |-> 0]
  /\ printed = <<>> /\ layers = <<>> /\ exports = <<>> /\ returned = FALSE
  /\ requests = <<>>

Init ==
  /\ catalog \in Catalogs
  /\ MainStart
  /\ call = NoCall /\ ret = NoCall

\* A materializing call: the client method (getInfo, addLayer, start), what it
\* is called on, and "none" or the error it raised.
Request(method, on, outcome) == [method |-> method, on |-> on, outcome |-> outcome]

\* The materializing call `method` on `on` raises e: main() ends with the
\* exception; there is no handler and no second attempt.
Abort(method, on, e) ==
  /\ pc' = "failed" /\ error' = e
  /\ requests' = Append(requests, Request(method, on, e))
  /\ UNCHANGED <<step, catalog, imageVars, numberVars, outputVars, unitVars>>

\* initialize_earth_engine(); create_output_directory(); ROI = define_roi()
Start ==
  /\ pc = "start"
  /\ pc' = "total_area"
  /\ UNCHANGED <<step, error, catalog, imageVars, numberVars, outputVars, requests, unitVars>>

\* total_area = ROI.area().divide(1e6).getInfo(); print
TotalArea ==
  /\ pc = "total_area"
  /\ \E f \in Outcomes :
       IF f = "none"
       THEN /\ total_area' = region_area_km2
            /\ printed' = Append(printed, <<"Total Area of ROI (km2):", region_area_km2>>)
            /\ requests' = Append(requests, Request("getInfo", "ROI.area", "none"))
            /\ pc' = "base_map"
            /\ UNCHANGED <<step, error, catalog, imageVars, area, area_change,
                           percentage_change, layers, exports, returned, unitVars>>
       ELSE Abort("getInfo", "ROI.area", f)

\* base_map = geemap.Map(...); add_bounding_box_to_map(base_map, ROI, ...)
BaseMap ==
  /\ pc = "base_map"
  /\ \E f \in Outcomes :
       IF f = "none"
       THEN /\ layers' = Append(layers, "Valencia Bounding Box")
            /\ requests' = Append(requests, Request("addLayer", "Valencia Bounding Box", "none"))
            /\ pc' = "preprocess"
            /\ UNCHANGED <<step, error, catalog, imageVars, numberVars, printed,
                           exports, returned, unitVars>>
       ELSE Abort("addLayer", "Valencia Bounding Box", f)

\* The collection, the two filtered and masked collections, their medians.
Preprocess ==
  /\ pc = "preprocess"
  /\ LET s2 == FilterCloudy(FilterDate(catalog, PRE_FLOOD_RANGE[1], POST_FLOOD_RANGE[2]),
                            CLOUD_CEILING)
         pre == MapClouds(FilterDate(s2, PRE_FLOOD_RANGE[1], PRE_FLOOD_RANGE[2]))
         post == MapClouds(FilterDate(s2, PRE_FLOOD_RANGE[1], POST_FLOOD_RANGE[2]))
     IN /\ sentinel2' = s2
        /\ pre_flood' = pre
        /\ post_flood' = post
        /\ pre_flood_median' = Median(pre)
        /\ post_flood_median' = Median(post)
  /\ pc' = "match"
  /\ UNCHANGED <<step, error, catalog, pre_flood_matched_b8, pansharpened_image,
                 pre_flood_indices, post_flood_indices, ndvi_diff, ndwi_diff, ndbi_diff,
                 ndwi_increase, dem, flood_risk_vis, numberVars, outputVars, requests, unitVars>>

\* A slip: the band statistics of the matching fetched with getInfo().
Match_eager ==
  /\ pc = "match"
  /\ pre_flood_matched_b8' =
       <<histogram_match_simple(pre_flood_median, post_flood_median, "B8", define_roi)>>
  /\ requests' = Append(requests, Request("getInfo", "pre_flood_median.minMax", "none"))
  /\ pc' = "pansharpen"
  /\ UNCHANGED <<step, error, catalog, sentinel2, pre_flood, post_flood, pre_flood_median,
                 post_flood_median, pansharpened_image, pre_flood_indices,
                 post_flood_indices, ndvi_diff, ndwi_diff, ndbi_diff, ndwi_increase, dem,
                 flood_risk_vis, numberVars, outputVars, unitVars>>
\* pre_flood_matched_b8 = histogram_match_simple(pre_flood_median, post_flood_median, 'B8', ROI, 10)
Match ==
  /\ pc = "match"
  /\ pre_flood_matched_b8' =
       <<histogram_match_simple(pre_flood_median, post_flood_median, "B8", define_roi)>>
  /\ pc' = "pansharpen"
  /\ UNCHANGED <<step, error, catalog, sentinel2, pre_flood, post_flood, pre_flood_median,
                 post_flood_median, pansharpened_image, pre_flood_indices,
                 post_flood_indices, ndvi_diff, ndwi_diff, ndbi_diff, ndwi_increase, dem,
                 flood_risk_vis, numberVars, outputVars, requests, unitVars>>

\* pre_flood_matched, multispectral, panchromatic, pansharpened_image
Pansharpen ==
  /\ pc = "pansharpen"
  /\ LET pre_flood_matched == AddBands(pre_flood_median, pre_flood_matched_b8)
         multispectral == Select(pre_flood_matched, <<"B4", "B3", "B2">>)
         panchromatic == SelectBand(pre_flood_matched, "B8_matched")
     IN pansharpened_image' =
          pansharpen_simple_mean(multispectral, panchromatic, <<"B4", "B3", "B2">>)
  /\ pc' = "indices"
  /\ UNCHANGED <<step, error, catalog, sentinel2, pre_flood, post_flood, pre_flood_median,
                 post_flood_median, pre_flood_matched_b8, pre_flood_indices,
                 post_flood_indices, ndvi_diff, ndwi_diff, ndbi_diff, ndwi_increase, dem,
                 flood_risk_vis, numberVars, outputVars, requests, unitVars>>

\* The indices of both composites and their differences (post - pre).
Indices ==
  /\ pc = "indices"
  /\ LET pre == calculate_indices(pre_flood_median)
         post == calculate_indices(post_flood_median)
     IN /\ pre_flood_indices' = pre
        /\ post_flood_indices' = post
        /\ ndvi_diff' = <<Subtract(SelectBand(post, "NDVI"), SelectBand(pre, "NDVI"))>>
        /\ ndwi_diff' = <<Subtract(SelectBand(post, "NDWI"), SelectBand(pre, "NDWI"))>>
        /\ ndbi_diff' = <<Subtract(SelectBand(post, "NDBI"), SelectBand(pre, "NDBI"))>>
  /\ pc' = "areas" /\ step' = 1
  /\ UNCHANGED <<error, catalog, sentinel2, pre_flood, post_flood, pre_flood_median,
                 post_flood_median, pre_flood_matched_b8, pansharpened_image,
                 ndwi_increase, dem, flood_risk_vis, numberVars, outputVars, requests, unitVars>>


\* The six calls of calculate_area, in the order main() makes them.
AreaCalls ==
  << [var |-> "pre_ndvi_area", epoch |-> "pre", index |-> "NDVI", threshold |-> NDVI_THRESHOLD],
     [var |-> "post_ndvi_area", epoch |-> "post", index |-> "NDVI", threshold |-> NDVI_THRESHOLD],
     [var |-> "pre_ndwi_area", epoch |-> "pre", index |-> "NDWI", threshold |-> NDWI_THRESHOLD],
     [var |-> "post_ndwi_area", epoch |-> "post", index |-> "NDWI", threshold |-> NDWI_THRESHOLD],
     [var |-> "pre_ndbi_area", epoch |-> "pre", index |-> "NDBI", threshold |-> NDBI_THRESHOLD],
     [var |-> "post_ndbi_area", epoch |-> "post", index |-> "NDBI", threshold |-> NDBI_THRESHOLD] >>

\* pre_ndvi = pre_flood_indices.select('NDVI'), and so on.
IndexImage(c) ==
  <<SelectBand(IF c.epoch = "pre" THEN pre_flood_indices ELSE post_flood_indices, c.index)>>

\* x_area = calculate_area(x, ROI, X_THRESHOLD), the step-th of the six calls.
\* calculate_area makes two materializing calls, area_stats.getInfo() and
\* image.bandNames().get(0).getInfo(); a failure of the service (f) strikes
\* the first of them or, when the first went through, the second (at).
Areas ==
  /\ pc = "areas"
  /\ \E f \in Outcomes, drop \in BOOLEAN, at \in {1, 2} :
       LET c == AreaCalls[step]
           stats == c.var \o ".area_stats"
           names == c.var \o ".bandNames"
           first == calculate_area(IndexImage(c), define_roi, c.threshold,
                                   [fail |-> "none", drop |-> drop, npix |-> RoiPixelCount])
           r == calculate_area(IndexImage(c), define_roi, c.threshold,
                               [fail |-> f, drop |-> drop, npix |-> RoiPixelCount])
       IN IF r.raised = "none"
          THEN /\ at = 1
               /\ area' = [area EXCEPT ![c.var] = r.value]
               /\ requests' = requests \o <<Request("getInfo", stats, "none"),
                                            Request("getInfo", names, "none")>>
               /\ IF step = Len(AreaCalls)
                  THEN pc' = "change" /\ step' = 0
                  ELSE pc' = pc /\ step' = step + 1
               /\ UNCHANGED <<error, catalog, imageVars, total_area, area_change,
                              percentage_change, outputVars, unitVars>>
          ELSE IF at = 1 \/ first.raised # "none"
            THEN Abort("getInfo", stats, IF f # "none" THEN f ELSE first.raised)
            ELSE /\ pc' = "failed" /\ error' = f
                 /\ requests' = requests \o <<Request("getInfo", stats, "none"),
                                              Request("getInfo", names, f)>>
                 /\ UNCHANGED <<step, catalog, imageVars, numberVars, outputVars, unitVars>>

\* The lines main() prints after the six areas.
ResultLines(ar, ch, pct) ==
  << <<"NDVI Pre-Flood Area (km2):", ar["pre_ndvi_area"]>>,
     <<"NDVI Post-Flood Area (km2):", ar["post_ndvi_area"]>>,
     <<"NDVI Area Change (km2):", ch["NDVI"]>>,
     <<"NDWI Pre-Flood Area (km2):", ar["pre_ndwi_area"]>>,
     <<"NDWI Post-Flood Area (km2):", ar["post_ndwi_area"]>>,
     <<"NDWI Area Change (km2):", ch["NDWI"]>>,
     <<"NDBI Pre-Flood Area (km2):", ar["pre_ndbi_area"]>>,
     <<"NDBI Post-Flood Area (km2):", ar["post_ndbi_area"]>>,
     <<"NDBI Area Change (km2):", ch["NDBI"]>>,
     <<"NDBI Pre-Flood Area (km2):", ar["pre_ndbi_area"]>>,
     <<"NDBI Post-Flood Area (km2):", ar["post_ndbi_area"]>>,
     <<"NDBI Area Change (km2):", ch["NDBI"]>>,
     <<"NDBI Percentage Change (%):", pct["NDBI"]>> >>

\* The area changes, the percentage changes, the printed results, ndwi_increase.
Change ==
  /\ pc = "change"
  /\ LET ch == [n \in IndexNames |->
                  CASE n = "NDVI" -> AreaChange(area["post_ndvi_area"], area["pre_ndvi_area"])
                    [] n = "NDWI" -> AreaChange(area["post_ndwi_area"], area["pre_ndwi_area"])
                    [] n = "NDBI" -> AreaChange(area["post_ndbi_area"], area["pre_ndbi_area"])]
         pct == [n \in IndexNames |-> PercentageChange(ch[n], total_area)]
     IN /\ area_change' = ch
        /\ percentage_change' = pct
        /\ printed' = printed \o ResultLines(area, ch, pct)
  /\ ndwi_increase' = UpdateMask(ndwi_diff, Gt(ndwi_diff[1], 0))
  /\ pc' = "total_area2"
  /\ UNCHANGED <<step, error, catalog, sentinel2, pre_flood, post_flood, pre_flood_median,
                 post_flood_median, pre_flood_matched_b8, pansharpened_image,
                 pre_flood_indices, post_flood_indices, ndvi_diff, ndwi_diff, ndbi_diff,
                 dem, flood_risk_vis, total_area, area, layers, exports, returned,
                 requests, unitVars>>

\* total_area = ROI.area().divide(1e6).getInfo(), the second time; print
TotalArea2 ==
  /\ pc = "total_area2"
  /\ \E f \in Outcomes :
       IF f = "none"
       THEN /\ total_area' = region_area_km2
            /\ printed' = Append(printed, <<"Total Area of ROI (km2):", region_area_km2>>)
            /\ requests' = Append(requests, Request("getInfo", "ROI.area", "none"))
            /\ pc' = "risk"
            /\ UNCHANGED <<step, error, catalog, imageVars, area, area_change,
                           percentage_change, layers, exports, returned, unitVars>>
       ELSE Abort("getInfo", "ROI.area", f)

\* dem = ee.Image("USGS/SRTMGL1_003").select([0]).clip(ROI), and the risk map.
Risk ==
  /\ pc = "risk"
  /\ \E d \in DemRasters :
       LET clipped == Clip(<<d[1]>>, define_roi)
       IN /\ dem' = clipped
          /\ flood_risk_vis' = <<flood_risk(clipped[1])>>
  /\ pc' = "layers" /\ step' = 1
  /\ UNCHANGED <<error, catalog, sentinel2, pre_flood, post_flood, pre_flood_median,
                 post_flood_median, pre_flood_matched_b8, pansharpened_image,
                 pre_flood_indices, post_flood_indices, ndvi_diff, ndwi_diff, ndbi_diff,
                 ndwi_increase, numberVars, outputVars, requests, unitVars>>

\* The names of the nine layers main() adds, in order.
LayerNames ==
  <<"Pre-Flood Imagery", "Post-Flood Imagery", "Pansharpened Image", "NDVI Difference",
    "NDWI Difference", "NDBI Difference", "NDWI Increase (Flooded Areas)", "DEM Elevation",
    "Flood Risk (Based on DEM)">>

\* base_map.addLayer(image.clip(ROI), vis, name), the step-th of the nine calls.
AddLayer ==
  /\ pc = "layers"
  /\ \E f \in Outcomes :
       IF f = "none"
       THEN /\ layers' = Append(layers, LayerNames[step])
            /\ requests' = Append(requests, Request("addLayer", LayerNames[step], "none"))
            /\ IF step = Len(LayerNames)
               THEN pc' = "exports" /\ step' = 1
               ELSE pc' = pc /\ step' = step + 1
            /\ UNCHANGED <<error, catalog, imageVars, numberVars, printed, exports,
                           returned, unitVars>>
       ELSE Abort("addLayer", LayerNames[step], f)

\* A slip: the risk map exported ahead of the NDWI increase.
ExportNames_risk_first ==
  <<"Pre_Flood_Imagery", "Post_Flood_Imagery", "Pansharpened_Image", "NDVI_Difference",
    "NDWI_Difference", "NDBI_Difference", "Flood_Risk_Map", "NDWI_Increase">>
\* The file names of the eight exports main() starts, in order.
ExportNames ==
  <<"Pre_Flood_Imagery", "Post_Flood_Imagery", "Pansharpened_Image", "NDVI_Difference",
    "NDWI_Difference", "NDBI_Difference", "NDWI_Increase", "Flood_Risk_Map">>

\* export_image_to_tiff(image, file_name, ROI): the task is created and
\* started; nothing waits for it.
export_image_to_tiff(tasks, image, file_name, region) ==
  Append(tasks, [image |-> Clip(image, region), description |-> file_name,
                 region |-> region, scale |-> 10])

\* The rasters of the eight exports, in the order of ExportNames.
ExportImages ==
  <<pre_flood_median, post_flood_median, pansharpened_image, ndvi_diff, ndwi_diff,
    ndbi_diff, ndwi_increase, Clip(flood_risk_vis, define_roi)>>

\* The step-th of the eight calls of export_image_to_tiff.
Export ==
  /\ pc = "exports"
  /\ \E f \in Outcomes :
       IF f = "none"
       THEN /\ exports' = export_image_to_tiff(exports, ExportImages[step], ExportNames[step],
                                                 define_roi)
            /\ requests' = Append(requests, Request("start", ExportNames[step], "none"))
            /\ IF step = Len(ExportNames)
               THEN pc' = "finish" /\ step' = 0
               ELSE pc' = pc /\ step' = step + 1
            /\ UNCHANGED <<error, catalog, imageVars, numberVars, printed, layers,
                           returned, unitVars>>
       ELSE Abort("start", ExportNames[step], f)

\* print("All export tasks have been started. ..."); return base_map
Finish ==
  /\ pc = "finish"
  /\ printed' = Append(printed, <<"All export tasks have been started.", 0>>)
  /\ returned' = TRUE
  /\ pc' = "done"
  /\ UNCHANGED <<step, error, catalog, imageVars, numberVars, layers, exports, requests,
                 unitVars>>

Next ==
  \/ Start \/ TotalArea \/ BaseMap \/ Preprocess \/ Match \/ Pansharpen \/ Indices
  \/ Areas \/ Change \/ TotalArea2 \/ Risk \/ AddLayer \/ Export \/ Finish

Spec == Init /\ [][Next]_vars


\* ---------------------------------------------- single functions on drawn inputs
\* main() is not running: its variables rest.
MainIdle ==
  /\ pc = "unit" /\ step = 0 /\ error = "none" /\ catalog = {}
  /\ sentinel2 = {} /\ pre_flood = {} /\ post_flood = {}
  /\ pre_flood_median = NoImage /\ post_flood_median = NoImage
  /\ pre_flood_matched_b8 = NoImage /\ pansharpened_image = NoImage
  /\ pre_flood_indices = NoImage /\ post_flood_indices = NoImage
  /\ ndvi_diff = NoImage /\ ndwi_diff = NoImage /\ ndbi_diff = NoImage
  /\ ndwi_increase = NoImage /\ dem = NoImage /\ flood_risk_vis = NoImage
  /\ total_area = 0
  /\ area = [n \in AreaNames |-> 0]
  /\ area_change = [n \in IndexNames |-> 0]
  /\ percentage_change = [n \in IndexNames |-> 0]
  /\ printed = <<>> /\ layers = <<>> /\ exports = <<>> /\ returned = FALSE
  /\ requests = <<>>

mainVars == <<pc, step, error, catalog, imageVars, numberVars, outputVars, requests>>

\* A threshold above every value an index raster holds (threshold = +inf).
Infinity == FP + 1
\* Index values (FP units) and thresholds calculate_area is tried on.
AreaValues == {-(FP \div 2), FP \div 1000, FP \div 4, FP}
AreaThresholds == {0, FP \div 1000, FP \div 4, Infinity}
AreaRegions == {{}, define_roi, Pixels}
AreaImages ==
  {<<Band("NDWI", px, FALSE)>> : px \in [Pixels -> [v : AreaValues, m : BOOLEAN]]}
AreaServers == [fail : Outcomes, drop : BOOLEAN, npix : {0, MAX_PIXELS, MaxCount}]

InitArea ==
  /\ MainIdle
  /\ call \in [fn : {"calculate_area"}, image : AreaImages, roi : AreaRegions,
               threshold : AreaThresholds]
  /\ ret = NoCall

\* calculate_area(call.image, call.roi, call.threshold) against a server srv;
\* ret keeps the server's part, the dictionary getInfo() gave and the outcome.
CallCalculateArea ==
  /\ call.fn = "calculate_area" /\ ret = NoCall
  /\ \E srv \in AreaServers :
       ret' = [srv |-> srv,
               dict |-> area_stats_dict(
                          Multiply(significant_area(call.image, call.threshold), PixelAreaBand),
                          call.roi, srv),
               result |-> calculate_area(call.image, call.roi, call.threshold, srv)]
  /\ UNCHANGED <<call, mainVars>>

NextArea == CallCalculateArea

SpecArea == InitArea /\ [][NextArea]_vars


\* Band values pansharpen_simple_mean is tried on: a band holds base + 10 * cell.
FusionBases == {200, 500, 1100}
FusionBand(name, base) == Band(name, [p \in Pixels |-> Px(base + 10 * p, TRUE)], FALSE)
\* The multispectral inputs: the three RGB bands alone, or with a further band
\* B8 behind or in front of them.
FusionImages ==
  {<<FusionBand("B4", f[1]), FusionBand("B3", f[2]), FusionBand("B2", f[3])>> :
     f \in [1..3 -> FusionBases]}
  \cup {<<FusionBand("B4", f[1]), FusionBand("B3", f[2]), FusionBand("B2", f[3]),
          FusionBand("B8", f[4])>> : f \in [1..4 -> FusionBases]}
  \cup {<<FusionBand("B8", f[4]), FusionBand("B2", f[3]), FusionBand("B3", f[2]),
          FusionBand("B4", f[1])>> : f \in [1..4 -> FusionBases]}
FusionBandLists == {<<"B4", "B3", "B2">>, <<"B3", "B4">>, <<"B2", "B8", "B4", "B3">>}

\* The per-cell mean of the bands of image named in bands.
NamedMean(image, bands) ==
  [p \in Pixels |->
     RoundDiv(SumOver([i \in 1..Len(bands) |-> SelectBand(image, bands[i]).px[p].v],
                      1..Len(bands)),
              Len(bands))]

\* The reference bands: a band of its own, or the mean of the named bands.
FusionReferences(image, bands) ==
  {FusionBand("B8_matched", b) : b \in FusionBases}
  \cup {Band("B8_matched", [p \in Pixels |-> Px(NamedMean(image, bands)[p], TRUE)], FALSE)}

InitFusion ==
  /\ MainIdle
  /\ \E image \in FusionImages, bands \in FusionBandLists :
       /\ \A i \in 1..Len(bands) : HasBand(image, bands[i])
       /\ \E pan \in FusionReferences(image, bands) :
            call = [fn |-> "pansharpen_simple_mean", multispectral |-> image,
                    panchromatic |-> pan, bands |-> bands]
  /\ ret = NoCall

\* pansharpen_simple_mean(call.multispectral, call.panchromatic, call.bands)
CallPansharpen ==
  /\ call.fn = "pansharpen_simple_mean" /\ ret = NoCall
  /\ ret' = [image |-> pansharpen_simple_mean(call.multispectral, call.panchromatic, call.bands)]
  /\ UNCHANGED <<call, mainVars>>

NextFusion == CallPansharpen

SpecFusion == InitFusion /\ [][NextFusion]_vars


\* B8 values (reflectance units) histogram_match_simple is tried on; their
\* range stays below FP, so that the fixed-point rounding of the normalized
\* band is finer than one reflectance unit.
MatchValues == {1000, 1600, 2500}
MatchImages ==
  {<<Band("B8", px, FALSE)>> : px \in [Pixels -> [v : MatchValues, m : BOOLEAN]]}
\* The reference images: the source image itself, or one of two images of
\* their own.
MatchReferences(image) ==
  {image,
   <<Band("B8", [p \in Pixels |-> Px(300 + 100 * p, TRUE)], FALSE)>>,
   <<Band("B8", [p \in Pixels |-> Px(700, TRUE)], FALSE)>>}

InitMatch ==
  /\ MainIdle
  /\ \E image \in MatchImages, region \in AreaRegions :
       \E reference \in MatchReferences(image) :
         call = [fn |-> "histogram_match_simple", pre_flood_image |-> image,
                 post_flood_image |-> reference, band_name |-> "B8", region |-> region]
  /\ ret = NoCall

\* histogram_match_simple(call.pre_flood_image, call.post_flood_image,
\* call.band_name, call.region, 10)
CallHistogramMatch ==
  /\ call.fn = "histogram_match_simple" /\ ret = NoCall
  /\ ret' = [image |-> <<histogram_match_simple(call.pre_flood_image, call.post_flood_image,
                                                call.band_name, call.region)>>]
  /\ UNCHANGED <<call, mainVars>>

NextMatch == CallHistogramMatch

SpecMatch == InitMatch /\ [][NextMatch]_vars


\* Scene-classification codes mask_sentinel2_clouds is tried on: the five it
\* tests for and a vegetation cell (4).
SclCodes == {3, 4, 8, 9, 10, 11}
\* The images: a reflectance band, valid everywhere or masked at cell 1, and
\* the SCL band with a mask of its own.
MaskImages ==
  {<<Band("B4", [p \in Pixels |-> Px(500 + p, b4m[p])], FALSE), Band("SCL", scl, FALSE)>> :
     b4m \in {[p \in Pixels |-> TRUE], [p \in Pixels |-> p # 1]},
     scl \in [Pixels -> [v : SclCodes, m : BOOLEAN]]}

InitMask ==
  /\ MainIdle
  /\ call \in [fn : {"mask_sentinel2_clouds"}, image : MaskImages]
  /\ ret = NoCall

\* mask_sentinel2_clouds(call.image)
CallMaskClouds ==
  /\ call.fn = "mask_sentinel2_clouds" /\ ret = NoCall
  /\ ret' = [image |-> mask_sentinel2_clouds(call.image)]
  /\ UNCHANGED <<call, mainVars>>

NextMask == CallMaskClouds

SpecMask == InitMask /\ [][NextMask]_vars

\* Cells of the bands calculate_indices is tried on: B8 holds a negative
\* value, 0, two reflectances or a masked cell, B4 0 or one of two
\* reflectances; B3 repeats B4 one cell on, B11 repeats B8 one cell on.
IndexCellsB8 == {Px(-50, TRUE), Px(0, TRUE), Px(300, TRUE), Px(1000, TRUE), Px(300, FALSE)}
IndexCellsB4 == {Px(0, TRUE), Px(300, TRUE), Px(700, TRUE)}
IndexImages ==
  {<<Band("B3", [p \in Pixels |-> b4[(p % NPix) + 1]], FALSE), Band("B4", b4, FALSE),
     Band("B8", b8, FALSE), Band("B11", [p \in Pixels |-> b8[(p % NPix) + 1]], FALSE)>> :
     b4 \in [Pixels -> IndexCellsB4], b8 \in [Pixels -> IndexCellsB8]}

\* The three indices calculate_indices adds, with their bands A and B.
IndexPairs ==
  {[index |-> "NDVI", A |-> "B8", B |-> "B4"],
   [index |-> "NDWI", A |-> "B3", B |-> "B8"],
   [index |-> "NDBI", A |-> "B11", B |-> "B8"]}

\* The raster with the contents of its bands A and B exchanged.
ExchangeBands(image, nameA, nameB) ==
  [i \in 1..Len(image) |->
     IF image[i].name = nameA THEN RenameBand(SelectBand(image, nameB), nameA)
     ELSE IF image[i].name = nameB THEN RenameBand(SelectBand(image, nameA), nameB)
     ELSE image[i]]

InitIndex ==
  /\ MainIdle
  /\ call \in [fn : {"calculate_indices"}, image : IndexImages]
  /\ ret = NoCall

\* calculate_indices(call.image)
CallCalculateIndices ==
  /\ call.fn = "calculate_indices" /\ ret = NoCall
  /\ ret' = [image |-> calculate_indices(call.image)]
  /\ UNCHANGED <<call, mainVars>>

\* calculate_indices once more, on the raster with the two bands of one index
\* exchanged: that index is then normalizedDifference([B, A]) of call.image.
CallCalculateIndicesReversed ==
  /\ call.fn = "calculate_indices" /\ ret # NoCall /\ DOMAIN ret = {"image"}
  /\ \E ix \in IndexPairs :
       ret' = [image |-> ret.image, pair |-> ix,
               reversed |-> calculate_indices(ExchangeBands(call.image, ix.A, ix.B))]
  /\ UNCHANGED <<call, mainVars>>

NextIndex == CallCalculateIndices \/ CallCalculateIndicesReversed

SpecIndex == InitIndex /\ [][NextIndex]_vars

\* ======================================================================= claims
\* Whether x occurs in the sequence q.
InSeq(x, q) == \E i \in 1..Len(q) : q[i] = x

\* ---- C1
RiskDone == flood_risk_vis # NoImage

\* C1: every valid cell of the risk raster holds exactly one class code of
\* {1, 2, 3}: 1 iff its elevation is above 50, 2 iff it is above 10 and at most
\* 50, 3 iff it is at most 10; the risk raster is valid exactly where the
\* elevation raster is.
C1_RiskClassification ==
  RiskDone =>
    \A p \in Pixels :
      LET e == dem[1].px[p].v
          c == flood_risk_vis[1].px[p].v
      IN /\ flood_risk_vis[1].px[p].m = dem[1].px[p].m
         /\ dem[1].px[p].m =>
              /\ c \in {1, 2, 3}
              /\ (c = 1) <=> (e > 50)
              /\ (c = 2) <=> (10 < e /\ e <= 50)
              /\ (c = 3) <=> (e <= 10)

\* A risk raster with a valid cell at elevation 50 classed 2 and one at 10 classed 3.
C1_Witness ==
  /\ RiskDone
  /\ \E p, q \in Pixels :
       /\ dem[1].px[p].m /\ dem[1].px[p].v = 50 /\ flood_risk_vis[1].px[p].v = 2
       /\ dem[1].px[q].m /\ dem[1].px[q].v = 10 /\ flood_risk_vis[1].px[q].v = 3

\* ---- C2
AreaReturned == ret # NoCall /\ call.fn = "calculate_area" /\ ret.result.raised = "none"
\* The cells of the call's region that are valid and above the threshold.
Counted ==
  {p \in call.roi : call.image[1].px[p].m /\ call.image[1].px[p].v > call.threshold}

\* C2: the number calculate_area returns is the sum, converted to km2, of
\* value * cell area over the cells that are valid, inside the region and
\* strictly above the threshold, and of no other cell; with a threshold at or
\* above every value it is 0.
C2_AreaExclusion ==
  AreaReturned =>
    /\ ret.result.value =
         RoundDiv(SumOver([p \in Pixels |-> call.image[1].px[p].v * PixelAreaM2], Counted),
                  1000000)
    /\ (\A p \in Pixels : call.image[1].px[p].v <= call.threshold) => ret.result.value = 0

\* A returned sum above 0 from an image with a masked cell above the
\* threshold and a valid cell at the threshold, both inside the region.
C2_Witness ==
  /\ AreaReturned
  /\ ret.result.value > 0
  /\ \E p, q \in call.roi :
       /\ ~call.image[1].px[p].m /\ call.image[1].px[p].v > call.threshold
       /\ call.image[1].px[q].m /\ call.image[1].px[q].v = call.threshold

\* ---- C3
\* The pre-event composite's B8 has defined statistics with max = min.
DegenerateB8 ==
  /\ pre_flood_median # NoImage
  /\ LET stats == MinMax(SelectBand(pre_flood_median, "B8"), define_roi)
     IN stats.ok /\ stats.min = stats.max

\* C3: once histogram_match_simple has been applied to a band with
\* src_max = src_min, the run has ended with DegenerateRangeError and there
\* is no matched raster.
C3_DegenerateRangeSignalled ==
  (DegenerateB8 /\ pc # "match") =>
    (pc = "failed" /\ error = "DegenerateRangeError" /\ pre_flood_matched_b8 = NoImage)

\* ---- C4
Preprocessed == pre_flood_median # NoImage
InRange(o, range) == range[1] <= o.date /\ o.date <= range[2]

\* C4: the observations of the pre-event composite are dated in the pre-event
\* range, those of the post-event composite in the post-event range, and with
\* disjoint ranges no observation is in both.
C4_EpochComposites ==
  Preprocessed =>
    /\ \A o \in pre_flood : InRange(o, PRE_FLOOD_RANGE)
    /\ \A o \in post_flood : InRange(o, POST_FLOOD_RANGE)
    /\ (PRE_FLOOD_RANGE[2] < POST_FLOOD_RANGE[1]) => (Ids(pre_flood) \cap Ids(post_flood) = {})

\* ---- C5
\* C5: a run that has failed has handed none of its result layers to the map
\* and has started no export task.
C5_NoPartialResults ==
  (pc = "failed") =>
    /\ \A i \in 1..Len(layers) : ~InSeq(layers[i], LayerNames)
    /\ exports = <<>>

\* ---- C6
\* The pre-event composite's B8 has no range over the region: max = min, or
\* no valid cell at all.
NoRangeB8 ==
  /\ pre_flood_median # NoImage
  /\ LET stats == MinMax(SelectBand(pre_flood_median, "B8"), define_roi)
     IN ~stats.ok \/ stats.min = stats.max

\* C6: in a run whose matching band has min = max over the region there is
\* never a pansharpened image, nor its layer, nor its export.
C6_NoSharpenedOutput ==
  NoRangeB8 =>
    /\ pansharpened_image = NoImage
    /\ ~InSeq("Pansharpened Image", layers)
    /\ \A i \in 1..Len(exports) : exports[i].description # "Pansharpened_Image"

\* ---- C7
\* The line of the printed output that reports index n's percentage change.
PercentageReported(n) == InSeq(<<n \o " Percentage Change (%):", percentage_change[n]>>, printed)

\* C7: in a run that returned, each index's area change is post - pre, its
\* percentage change is area change / total area * 100 (116.09, 4.2405 and
\* 4.1787 giving -0.0618 and -0.0532), and the percentage changes of all
\* three indices are in the reported output.
C7_AreaAndPercentageChange ==
  returned =>
    /\ area_change["NDVI"] = area["post_ndvi_area"] - area["pre_ndvi_area"]
    /\ area_change["NDWI"] = area["post_ndwi_area"] - area["pre_ndwi_area"]
    /\ area_change["NDBI"] = area["post_ndbi_area"] - area["pre_ndbi_area"]
    /\ \A n \in IndexNames :
         percentage_change[n] = RoundDiv(area_change[n] * 100 * FP, total_area)
    /\ AreaChange(41787, 42405) = -618
    /\ PercentageChange(-618, 1160900) = -532
    /\ \A n \in IndexNames : PercentageReported(n)

\* ---- C8
\* C8: when the dictionary the aggregation returned lacks the image's band,
\* calculate_area returns 0; every error of the aggregation is raised to the
\* caller unchanged.
C8_ZeroAreaRecovery ==
  (ret # NoCall /\ call.fn = "calculate_area") =>
    /\ (ret.dict.raised = "none" /\ call.image[1].name \notin ret.dict.keys)
         => ret.result = Returned(0)
    /\ (ret.dict.raised # "none") => ret.result = Raised(ret.dict.raised)
    /\ (ret.srv.fail # "none") => ret.result = Raised(ret.srv.fail)

\* An aggregation whose dictionary lacks the band, answered with 0.
C8_Witness ==
  /\ ret # NoCall /\ call.fn = "calculate_area"
  /\ ret.dict.raised = "none" /\ ret.dict.keys = {}
  /\ ret.result = Returned(0)

\* ---- C9
\* C9: when the region's pixel count exceeds maxPixels, calculate_area raises
\* (the budget error, unless the call failed before it) and returns no sum,
\* and no reduction at a coarser scale has taken place.
C9_ResolutionBudget ==
  (ret # NoCall /\ call.fn = "calculate_area" /\ ret.srv.npix > 10) =>
    /\ ret.result.raised # "none"
    /\ ~ret.dict.coarse
    /\ (ret.srv.fail = "none") => ret.result.raised = "TooManyPixels"

\* An over-budget aggregation of a region with counted cells, raised as such.
C9_Witness ==
  /\ ret # NoCall /\ call.fn = "calculate_area"
  /\ ret.srv.npix > 10 /\ ret.srv.fail = "none" /\ Counted # {}
  /\ ret.result = Raised("TooManyPixels")

\* ---- C10
\* C10: every output band of pansharpen_simple_mean is original + (reference
\* - m) with m the per-cell mean of the bands named in `bands`, whatever other
\* bands the multispectral input carries.
C10_FusionFormula ==
  (ret # NoCall /\ call.fn = "pansharpen_simple_mean") =>
    \A i \in 1..Len(call.bands), p \in Pixels :
      ret.image[i].px[p].v =
        SelectBand(call.multispectral, call.bands[i]).px[p].v
          + (call.panchromatic.px[p].v - NamedMean(call.multispectral, call.bands)[p])

\* ---- C11
MatchDone == ret # NoCall /\ call.fn = "histogram_match_simple"
\* The call's source band has defined region statistics with max > min.
NonDegenerate ==
  LET stats == MinMax(SelectBand(call.pre_flood_image, call.band_name), call.region)
  IN stats.ok /\ stats.max > stats.min

\* C11: histogram_match_simple applied with the reference image equal to the
\* source image, on a band with max > min over the region, returns a band
\* named '<band>_matched' that is valid where the source band is and holds
\* the source value at every valid cell.
C11_MatcherIdentity ==
  (MatchDone /\ call.post_flood_image = call.pre_flood_image /\ NonDegenerate) =>
    LET src == SelectBand(call.pre_flood_image, call.band_name)
        out == ret.image[1]
    IN /\ Len(ret.image) = 1
       /\ out.name = call.band_name \o "_matched"
       /\ ~out.err
       /\ \A p \in Pixels :
            /\ out.px[p].m = src.px[p].m
            /\ src.px[p].m => out.px[p].v = src.px[p].v

\* A source matched to itself with three different valid values, one of them
\* outside the region.
C11_Witness ==
  /\ MatchDone /\ call.post_flood_image = call.pre_flood_image /\ NonDegenerate
  /\ call.region = define_roi
  /\ \A p \in Pixels : call.pre_flood_image[1].px[p].m
  /\ Cardinality({call.pre_flood_image[1].px[p].v : p \in Pixels}) = 3
  /\ ret.image[1].name = "B8_matched"

\* ---- C12
MaskDone == ret # NoCall /\ call.fn = "mask_sentinel2_clouds"
\* The scene-classification codes of the invalid categories.
InvalidCodes == {3, 8, 9, 10, 11}

\* The output has the input's bands; a cell of an output band is valid iff it
\* was valid in the input band, the cell has a scene-classification code and
\* the code is not an invalid category; every cell keeps its input value.
MaskedOutput ==
  MaskDone =>
    LET scl == SelectBand(call.image, "SCL")
        clear == {p \in Pixels : scl.px[p].m /\ scl.px[p].v \notin InvalidCodes}
    IN /\ BandNames(ret.image) = BandNames(call.image)
       /\ \A i \in 1..Len(call.image), p \in Pixels :
            /\ ret.image[i].px[p].m = (call.image[i].px[p].m /\ p \in clear)
            /\ ret.image[i].px[p].v = call.image[i].px[p].v

\* C12: a cell of the output of mask_sentinel2_clouds is valid iff the input
\* cell was valid and its scene-classification code is not an invalid
\* category, the same cells are masked in all bands, valid cells keep their
\* values, and the call leaves the raster it was given as it was.
C12_QualityMask ==
  /\ []MaskedOutput
  /\ [][call.fn = "mask_sentinel2_clouds" => call' = call]_vars

\* An output with a cell masked for its class although valid in the input,
\* and a cell of a clear class kept valid with its value.
C12_Witness ==
  /\ MaskDone
  /\ \E p, q \in Pixels :
       /\ call.image[1].px[p].m /\ call.image[2].px[p].m /\ call.image[2].px[p].v = 11
       /\ ~ret.image[1].px[p].m /\ ~ret.image[2].px[p].m
       /\ call.image[1].px[q].m /\ call.image[2].px[q].m /\ call.image[2].px[q].v = 4
       /\ ret.image[1].px[q] = call.image[1].px[q]

\* ---- C13
IndicesDone == ret # NoCall /\ call.fn = "calculate_indices"
ReversedDone == IndicesDone /\ "reversed" \in DOMAIN ret

\* C14: the index of (A, B) and the index of (B, A) of one raster are masked
\* at the same cells, and at every unmasked cell index(A, B) = -index(B, A).
C14_IndexAntisymmetry ==
  ReversedDone =>
    \A p \in Pixels :
      LET ab == SelectBand(ret.image, ret.pair.index).px[p]
          ba == SelectBand(ret.reversed, ret.pair.index).px[p]
      IN /\ ab.m = ba.m
         /\ ab.m => ab.v = -ba.v

\* An NDVI of (B8, B4) and of (B4, B8) with a valid cell that is not 0, a
\* cell masked for a negative B8 and a cell masked for a zero sum.
C14_Witness ==
  /\ ReversedDone /\ ret.pair.index = "NDVI"
  /\ \E p, q, r \in Pixels :
       /\ SelectBand(ret.image, "NDVI").px[p].m
       /\ SelectBand(ret.image, "NDVI").px[p].v > 0
       /\ SelectBand(ret.reversed, "NDVI").px[p].v < 0
       /\ SelectBand(call.image, "B8").px[q] = Px(-50, TRUE)
       /\ SelectBand(call.image, "B4").px[q].v > 0
       /\ ~SelectBand(ret.reversed, "NDVI").px[q].m
       /\ SelectBand(call.image, "B8").px[r] = Px(0, TRUE)
       /\ SelectBand(call.image, "B4").px[r] = Px(0, TRUE)

\* ---- C15
\* The stages that only build image expressions.
LazyStages == {"preprocess", "match", "pansharpen", "indices", "change", "risk"}
\* The materializing calls of calculate_area, by what they are called on.
AggregationTargets ==
  {AreaCalls[i].var \o ".area_stats" : i \in 1..Len(AreaCalls)}
  \cup {AreaCalls[i].var \o ".bandNames" : i \in 1..Len(AreaCalls)}
\* A materializing call that evaluates a raster of the pipeline.
RasterRequest(r) ==
  \/ r.method = "getInfo" /\ r.on \in AggregationTargets
  \/ r.method = "addLayer" /\ InSeq(r.on, LayerNames)
  \/ r.method = "start"
\* Every materializing call made is the region-area computation, a call of
\* calculate_area, a layer handed to the map or an export start; as long as
\* no aggregation has been asked for, none of them evaluated a raster.
OnlyKnownRequests ==
  /\ \A i \in 1..Len(requests) :
       \/ requests[i].method = "getInfo" /\ requests[i].on = "ROI.area"
       \/ requests[i].method = "getInfo" /\ requests[i].on \in AggregationTargets
       \/ requests[i].method = "addLayer"
       \/ requests[i].method = "start" /\ InSeq(requests[i].on, ExportNames)
  /\ (\A i \in 1..Len(requests) : requests[i].on # "pre_ndvi_area.area_stats")
       => \A i \in 1..Len(requests) : ~RasterRequest(requests[i])

\* C15: the masking, composite, matching, fusion, index and difference stages
\* make no materializing call; the only materializing calls of a run are
\* the region-area computation, those of calculate_area and the hand-offs to
\* the map and the exports; a run that stops before its first aggregation
\* has evaluated no raster.
C15_Laziness ==
  /\ []OnlyKnownRequests
  /\ [][(pc \in LazyStages) => UNCHANGED requests]_vars

\* A run that has built every index and difference raster, with the
\* region-area computation and the bounding-box layer as its only calls.
C15_Witness ==
  /\ pc = "areas" /\ step = 1
  /\ ndvi_diff # NoImage /\ pansharpened_image # NoImage
  /\ Len(requests) = 2
  /\ requests[1] = Request("getInfo", "ROI.area", "none")
  /\ requests[2].method = "addLayer"

\* ---- C16
\* The number of attempts made of the materializing call the run ended on.
LastCallAttempts ==
  LET last == requests[Len(requests)]
  IN Cardinality({i \in 1..Len(requests) :
                    requests[i].method = last.method /\ requests[i].on = last.on})

\* C16: a run ends with the service-unavailable error of a materializing
\* call only after the call has been tried again, and a data error ends the
\* run at its first occurrence, without a second attempt.
C16_TransientRetried ==
  (pc = "failed") =>
    /\ (error = "ServiceUnavailable") => LastCallAttempts >= 2
    /\ (error = "EEException") => LastCallAttempts = 1

\* ---- C17
\* The raster artifacts of a run's result.
ResultArtifacts ==
  <<pre_flood_median, post_flood_median, pansharpened_image, ndvi_diff, ndwi_diff,
    ndbi_diff, ndwi_increase, dem, flood_risk_vis>>

\* C17: a run that returned has started exactly one export task for each of
\* the nine raster artifacts (the two composites, the pansharpened image, the
\* three differences, the water increase, the elevation raster, the risk
\* raster), each over the run's region, and no task beyond them.
C17_ExportPerArtifact ==
  returned =>
    /\ Len(exports) = Len(ResultArtifacts)
    /\ \A k \in 1..Len(ResultArtifacts) :
         \E i \in 1..Len(exports) :
           /\ exports[i].image = Clip(ResultArtifacts[k], define_roi)
           /\ exports[i].region = define_roi
    /\ \A i, j \in 1..Len(exports) :
         (i # j) => exports[i].description # exports[j].description

\* ---- C18
\* The materializing calls of a run that meets no failure, in order: the
\* region area, the bounding-box overlay, the six aggregations (pre then post
\* for NDVI, NDWI, NDBI; each the sum and the band name), the region area
\* again, the nine layers, the eight export starts.
RunOrder ==
  << <<"getInfo", "ROI.area">>, <<"addLayer", "Valencia Bounding Box">>,
     <<"getInfo", "pre_ndvi_area.area_stats">>, <<"getInfo", "pre_ndvi_area.bandNames">>,
     <<"getInfo", "post_ndvi_area.area_stats">>, <<"getInfo", "post_ndvi_area.bandNames">>,
     <<"getInfo", "pre_ndwi_area.area_stats">>, <<"getInfo", "pre_ndwi_area.bandNames">>,
     <<"getInfo", "post_ndwi_area.area_stats">>, <<"getInfo", "post_ndwi_area.bandNames">>,
     <<"getInfo", "pre_ndbi_area.area_stats">>, <<"getInfo", "pre_ndbi_area.bandNames">>,
     <<"getInfo", "post_ndbi_area.area_stats">>, <<"getInfo", "post_ndbi_area.bandNames">>,
     <<"getInfo", "ROI.area">>,
     <<"addLayer", "Pre-Flood Imagery">>, <<"addLayer", "Post-Flood Imagery">>,
     <<"addLayer", "Pansharpened Image">>, <<"addLayer", "NDVI Difference">>,
     <<"addLayer", "NDWI Difference">>, <<"addLayer", "NDBI Difference">>,
     <<"addLayer", "NDWI Increase (Flooded Areas)">>, <<"addLayer", "DEM Elevation">>,
     <<"addLayer", "Flood Risk (Based on DEM)">>,
     <<"start", "Pre_Flood_Imagery">>, <<"start", "Post_Flood_Imagery">>,
     <<"start", "Pansharpened_Image">>, <<"start", "NDVI_Difference">>,
     <<"start", "NDWI_Difference">>, <<"start", "NDBI_Difference">>,
     <<"start", "NDWI_Increase">>, <<"start", "Flood_Risk_Map">> >>
\* The position in RunOrder of the first export start.
FirstExport == Len(RunOrder) - 7

AreaSet(i) == Len(requests) >= 2 + 2 * i /\ requests[2 + 2 * i].outcome = "none"
\* The cells the i-th call counts: valid, in the region, above the threshold.
CountedBy(i) ==
  LET img == IndexImage(AreaCalls[i])[1]
  IN {p \in define_roi : img.px[p].m /\ img.px[p].v > AreaCalls[i].threshold}
\* The ground area of a set of cells, km2 in FP units.
GroundAreaKm2(cells) == RoundDiv(Cardinality(cells) * PixelAreaM2 * FP, M2_PER_KM2)

FusionDone == ret # NoCall /\ call.fn = "pansharpen_simple_mean"
\* `bands` lists every band of the multispectral input, each once.
ListsAllBands ==
  /\ Len(call.bands) = Len(call.multispectral)
  /\ \A k \in 1..Len(call.multispectral) : InSeq(call.multispectral[k].name, call.bands)

\* C20: the output of pansharpen_simple_mean has the bands listed in `bands`,
\* in that order; at every cell the difference of two output bands is the
\* difference of the two input bands of those names; and when `bands` lists
\* all bands of the multispectral input, the per-cell mean of the output
\* bands is the reference band.
C20_FusionDifferences ==
  FusionDone =>
    /\ BandNames(ret.image) = call.bands
    /\ \A i, j \in 1..Len(call.bands), p \in Pixels :
         ret.image[i].px[p].v - ret.image[j].px[p].v =
           SelectBand(call.multispectral, call.bands[i]).px[p].v
             - SelectBand(call.multispectral, call.bands[j]).px[p].v
    /\ ListsAllBands =>
         \A p \in Pixels :
           RoundDiv(SumOver([i \in 1..Len(ret.image) |-> ret.image[i].px[p].v],
                            1..Len(ret.image)),
                    Len(ret.image)) = call.panchromatic.px[p].v

\* A four-band input in the order B8, B2, B3, B4 sharpened for all its bands
\* listed in another order, with bands that differ and a reference that
\* moves the first of them.
C20_Witness ==
  /\ FusionDone /\ ListsAllBands
  /\ BandNames(call.multispectral) = <<"B8", "B2", "B3", "B4">>
  /\ call.bands = <<"B2", "B8", "B4", "B3">>
  /\ ret.image[1].px[1].v # SelectBand(call.multispectral, "B2").px[1].v
  /\ ret.image[1].px[1].v # ret.image[2].px[1].v

=============================================================================
